---- MODULE Spec2Model ----
(***************************************************************************)
(* Life board data model, the sequential engine (BaseLifeBoard) and the    *)
(* thread-per-range parallel engine (ParallelLifeBoard) of                 *)
(* src/src/life_implementation.rs, and the LifeBoard of src/src/life.rs.   *)
(* Coordinates are 0-based as in the                                       *)
(* source; TLA+ sequences are 1-based, so grid[x][y] of the source is      *)
(* grid[x + 1][y + 1] here.                                                *)
(***************************************************************************)
EXTENDS Integers, Sequences, FiniteSets, TLC

\* ------------------------------------------------------------------ bounds
MaxW == 3
MaxH == 3
MaxCells == 6
MaxThreads == 3
MaxSteps == 2
\* thread counts of the simulate_n_steps runs
MaxThreadsN == 2
\* widths and thread counts handed to row_ranges on its own
MaxPlanW == 8
MaxPlanN == 9

\* ------------------------------------------------------------ Option<T>
None == << >>
Some(v) == << v >>
IsSome(o) == o # None
Unwrap(o) == o[1]

\* ------------------------------------------------------------------ Cell
Cell(alive) == [alive |-> alive]

\* --------------------------------------------------------- error messages
MsgWide ==
    << "B", "o", "a", "r", "d", " ", "m", "u", "s", "t", " ", "b", "e", " ",
       "a", "t", " ", "l", "e", "a", "s", "t", " ", "o", "n", "e", " ",
       "c", "e", "l", "l", " ", "w", "i", "d", "e", "." >>
MsgTall ==
    << "B", "o", "a", "r", "d", " ", "m", "u", "s", "t", " ", "b", "e", " ",
       "a", "t", " ", "l", "e", "a", "s", "t", " ", "o", "n", "e", " ",
       "c", "e", "l", "l", " ", "t", "a", "l", "l", "." >>
MsgSize ==
    << "B", "o", "a", "r", "d", " ", "m", "u", "s", "t", " ", "h", "a", "v",
       "e", " ", "c", "o", "l", "u", "m", "n", "s", " ", "o", "f", " ",
       "c", "o", "n", "s", "i", "s", "t", "e", "n", "t", " ", "s", "i", "z",
       "e", "." >>

\* LifeBoardError::InvalidBoard(msg) returned as Err, and Ok(board)
Err(msg) == [ok |-> FALSE, kind |-> "InvalidBoard", msg |-> msg]
Ok(b) == [ok |-> TRUE, board |-> b]

\* str::contains, as used by assert_contains of the test module
Contains(actual, expected) ==
    \E i \in 1..(Len(actual) - Len(expected) + 1) :
        SubSeq(actual, i, i + Len(expected) - 1) = expected

\* -------------------------------------------------- board construction
\* faulty variant: the column-length loop is missing
FromGridNoLoop(grid) ==
    IF Len(grid) = 0 THEN Err(MsgWide)
    ELSE IF Len(grid[1]) = 0 THEN Err(MsgTall)
    ELSE Ok([grid |-> grid, width |-> Len(grid), height |-> Len(grid[1])])

\* faulty variant: the column-length loop runs before the height check
FromGridLoopFirst(grid) ==
    IF Len(grid) = 0 THEN Err(MsgWide)
    ELSE IF \E c \in 1..Len(grid) : Len(grid[c]) # Len(grid[1]) THEN Err(MsgSize)
    ELSE IF Len(grid[1]) = 0 THEN Err(MsgTall)
    ELSE Ok([grid |-> grid, width |-> Len(grid), height |-> Len(grid[1])])

\* faulty variant: width and height are taken from the wrong dimension
FromGridSwappedDims(grid) ==
    IF Len(grid) = 0 THEN Err(MsgWide)
    ELSE IF Len(grid[1]) = 0 THEN Err(MsgTall)
    ELSE IF \E c \in 1..Len(grid) : Len(grid[c]) # Len(grid[1]) THEN Err(MsgSize)
    ELSE Ok([grid |-> grid, width |-> Len(grid[1]), height |-> Len(grid)])

\* BaseLifeBoard::_from_grid
FromGrid(grid) ==
    IF Len(grid) = 0 THEN Err(MsgWide)
    ELSE IF Len(grid[1]) = 0 THEN Err(MsgTall)
    ELSE IF \E c \in 1..Len(grid) : Len(grid[c]) # Len(grid[1]) THEN Err(MsgSize)
    ELSE Ok([grid |-> grid, width |-> Len(grid), height |-> Len(grid[1])])

\* BaseLifeBoard::from_bool_matrix
FromBoolMatrix(collection) ==
    FromGrid([c \in 1..Len(collection) |->
                 [r \in 1..Len(collection[c]) |-> Cell(collection[c][r])]])

\* --------------------------------------------------------------- queries
\* faulty variant: a negative coordinate is clamped to 0 instead of rejected
CellAtIClamped(b, x, y) ==
    LET cx == IF x < 0 THEN 0 ELSE x
        cy == IF y < 0 THEN 0 ELSE y
    IN  IF cx < Len(b.grid)
        THEN IF cy < Len(b.grid[cx + 1]) THEN Some(b.grid[cx + 1][cy + 1]) ELSE None
        ELSE None

\* BaseLifeBoard::_cell_at
CellAtI(b, x, y) ==
    IF x < 0 THEN None
    ELSE IF y < 0 THEN None
    ELSE IF x < Len(b.grid)
         THEN IF y < Len(b.grid[x + 1]) THEN Some(b.grid[x + 1][y + 1]) ELSE None
         ELSE None

\* BaseLifeBoard::_is_cell_alive
IsCellAliveI(b, x, y) ==
    LET cell == CellAtI(b, x, y)
    IN  IF IsSome(cell) THEN Some(Unwrap(cell).alive) ELSE None

\* BaseLifeBoard::cell_at
CellAt(b, x, y) == CellAtI(b, x, y)

\* BaseLifeBoard::is_cell_alive
IsCellAlive(b, x, y) == IsCellAliveI(b, x, y)

\* faulty variant: the grid wraps around at its edges
NumAliveNeighborsAtWrapped(b, x, y) ==
    Cardinality({d \in (0..2) \X (0..2) :
        /\ ~(d[1] = 1 /\ d[2] = 1)
        /\ IsCellAliveI(b, ((x - 1) + d[1]) % b.width,
                           ((y - 1) + d[2]) % b.height) = Some(TRUE)})

\* BaseLifeBoard::num_alive_neighbors_at
NumAliveNeighborsAt(b, x, y) ==
    Cardinality({d \in (0..2) \X (0..2) :
        /\ ~(d[1] = 1 /\ d[2] = 1)
        /\ IsCellAliveI(b, (x - 1) + d[1], (y - 1) + d[2]) = Some(TRUE)})

\* faulty variant: a live cell with three live neighbours dies
NextCellStateAtTwoOnly(b, x, y) ==
    LET cell == CellAt(b, x, y)
    IN  IF ~IsSome(cell) THEN None
        ELSE LET old_cell == Unwrap(cell)
                 n == NumAliveNeighborsAt(b, x, y)
             IN  Some(Cell(
                     IF n \in {0, 1} /\ old_cell.alive THEN FALSE
                     ELSE IF n = 2 /\ old_cell.alive THEN TRUE
                     ELSE IF n \in 3..8 /\ old_cell.alive THEN FALSE
                     ELSE IF n = 3 /\ ~old_cell.alive THEN TRUE
                     ELSE FALSE))

\* faulty variant: a cell with five live neighbours is alive in the next generation
NextCellStateAtFive(b, x, y) ==
    LET cell == CellAt(b, x, y)
    IN  IF ~IsSome(cell) THEN None
        ELSE LET old_cell == Unwrap(cell)
                 n == NumAliveNeighborsAt(b, x, y)
             IN  Some(Cell(
                     IF n \in {0, 1} /\ old_cell.alive THEN FALSE
                     ELSE IF n \in {2, 3, 5} /\ old_cell.alive THEN TRUE
                     ELSE IF n \in 4..8 /\ old_cell.alive THEN FALSE
                     ELSE IF n = 3 /\ ~old_cell.alive THEN TRUE
                     ELSE FALSE))

\* faulty variant: a live cell with four or more live neighbours survives
NextCellStateAtCrowded(b, x, y) ==
    LET cell == CellAt(b, x, y)
    IN  IF ~IsSome(cell) THEN None
        ELSE LET old_cell == Unwrap(cell)
                 n == NumAliveNeighborsAt(b, x, y)
             IN  Some(Cell(
                     IF n \in {0, 1} /\ old_cell.alive THEN FALSE
                     ELSE IF n \in 2..8 /\ old_cell.alive THEN TRUE
                     ELSE IF n = 3 /\ ~old_cell.alive THEN TRUE
                     ELSE FALSE))

\* BaseLifeBoard::next_cell_state_at
NextCellStateAt(b, x, y) ==
    LET cell == CellAt(b, x, y)
    IN  IF ~IsSome(cell) THEN None
        ELSE LET old_cell == Unwrap(cell)
                 n == NumAliveNeighborsAt(b, x, y)
             IN  Some(Cell(
                     IF n \in {0, 1} /\ old_cell.alive THEN FALSE
                     ELSE IF n \in {2, 3} /\ old_cell.alive THEN TRUE
                     ELSE IF n \in 4..8 /\ old_cell.alive THEN FALSE
                     ELSE IF n = 3 /\ ~old_cell.alive THEN TRUE
                     ELSE FALSE))

\* LifeBoard::width and LifeBoard::height of BaseLifeBoard
Width(b) == b.width
Height(b) == b.height

\* faulty variant: each new cell is written into the grid the next one is read from
RECURSIVE SimulateGridInPlaceFrom(_, _)
SimulateGridInPlaceFrom(b, k) ==
    IF k >= b.width * b.height THEN b.grid
    ELSE LET row_idx == k \div b.height
             col_idx == k % b.height
             new_cell == Unwrap(NextCellStateAt(b, row_idx, col_idx))
         IN  SimulateGridInPlaceFrom(
                 [b EXCEPT !.grid[row_idx + 1][col_idx + 1] = new_cell], k + 1)
SimulateGridInPlace(b) == SimulateGridInPlaceFrom(b, 0)

\* BaseLifeBoard::simulate: the grid it assigns to self.grid
SimulateGrid(b) ==
    [row_idx \in 1..b.width |->
        [col_idx \in 1..b.height |->
            Unwrap(NextCellStateAt(b, row_idx - 1, col_idx - 1))]]

\* BaseLifeBoard::simulate
Simulate(b) == [b EXCEPT !.grid = SimulateGrid(b)]

\* faulty variant: the loop starts at 1
RECURSIVE SimulateNStepsSkipFirst(_, _)
SimulateNStepsSkipFirst(b, n) ==
    IF n <= 1 THEN b ELSE SimulateNStepsSkipFirst(Simulate(b), n - 1)

\* for _ in i..n { self.simulate() }
RECURSIVE SimulateNStepsFrom(_, _, _)
SimulateNStepsFrom(b, i, n) ==
    IF i >= n THEN b ELSE SimulateNStepsFrom(Simulate(b), i + 1, n)

\* BaseLifeBoard::simulate_n_steps
SimulateNSteps(b, n) == SimulateNStepsFrom(b, 0, n)

\* ParallelLifeBoard::_is_cell_alive, on the board behind the engine's handle
ParIsCellAliveI(b, x, y) ==
    LET cell == CellAtI(b, x, y)
    IN  IF IsSome(cell) THEN Some(Unwrap(cell).alive) ELSE None

\* ------------------------------------------------------- life.rs LifeBoard
\* LifeBoard::is_cell_alive
LifeIsCellAlive(b, x, y) ==
    IF x < 0 THEN None
    ELSE IF y < 0 THEN None
    ELSE IF x < Len(b.grid)
         THEN IF y < Len(b.grid[x + 1]) THEN Some(b.grid[x + 1][y + 1].alive) ELSE None
         ELSE None

\* LifeBoard::get_num_alive_neighbors
LifeGetNumAliveNeighbors(b, x, y) ==
    Cardinality({d \in (0..2) \X (0..2) :
        /\ ~(d[1] = 1 /\ d[2] = 1)
        /\ LifeIsCellAlive(b, (x - 1) + d[1], (y - 1) + d[2]) = Some(TRUE)})

\* LifeBoard::next_cell_state
LifeNextCellState(b, x, y) ==
    LET neighbors == LifeGetNumAliveNeighbors(b, x, y)
        old_cell == b.grid[x + 1][y + 1]
    IN  IF neighbors \in {0, 1} /\ old_cell.alive THEN Cell(FALSE)
        ELSE IF neighbors \in {2, 3} /\ old_cell.alive THEN Cell(TRUE)
        ELSE IF neighbors \in 4..8 /\ old_cell.alive THEN Cell(FALSE)
        ELSE IF neighbors = 3 /\ ~old_cell.alive THEN Cell(TRUE)
        ELSE Cell(FALSE)

\* LifeBoard::simulate(&self) -> LifeBoard: the receiver after the call and
\* the board returned
LifeSimulate(b) ==
    [self |-> b,
     ret |-> [grid |-> [row_idx \in 1..b.width |->
                           [col_idx \in 1..b.height |->
                               LifeNextCellState(b, row_idx - 1, col_idx - 1)]],
              width |-> b.width, height |-> b.height]]

\* for _ in i..steps { board = board.simulate() }
RECURSIVE LifeSimulateLoop(_, _, _)
LifeSimulateLoop(b, i, steps) ==
    IF i >= steps THEN b ELSE LifeSimulateLoop(LifeSimulate(b).ret, i + 1, steps)

\* LifeBoard::simulate_n_steps(&self, steps: u16) -> LifeBoard
LifeSimulateNSteps(b, steps) ==
    IF steps = 0
    THEN [self |-> b, ret |-> [grid |-> b.grid, width |-> b.width, height |-> b.height]]
    ELSE [self |-> b, ret |-> LifeSimulateLoop(LifeSimulate(b).ret, 1, steps)]

\* ------------------------------------------------------------------ cells
\* Color(r, g, b, a) constants of bin/main.rs
DEAD_COLOR == << 0, 0, 0, 255 >>
ALIVE_COLOR == << 48, 255, 255, 255 >>

\* ColorCell::gen, for the drawn bool alive
ColorCellGen(alive) ==
    [alive |-> alive, color |-> IF alive THEN ALIVE_COLOR ELSE DEAD_COLOR]

\* LifeCell::is_alive of Cell and of ColorCell
IsAlive(c) == c.alive

\* faulty variant: only the flag of the copy is set
ToAliveFlagOnly(c) == [self |-> c, ret |-> [c EXCEPT !.alive = TRUE]]

\* ColorCell::to_alive(&self): the receiver after the call and the cell returned
ToAlive(c) == [self |-> c, ret |-> [alive |-> TRUE, color |-> ALIVE_COLOR]]

\* ColorCell::to_dead(&self)
ToDead(c) == [self |-> c, ret |-> [alive |-> FALSE, color |-> DEAD_COLOR]]

\* #[derive(PartialEq)] on ColorCell: field by field
ColorCellEq(a, b) == a.alive = b.alive /\ a.color = b.color

\* #[derive(PartialEq)] on Cell
CellEq(a, b) == a.alive = b.alive

\* ----------------------------------------------------- random generation
\* faulty variant: the two loops are exchanged
GenTransposed(width, height, draws) ==
    [grid |-> [c \in 1..height |->
                  [r \in 1..width |-> Cell(draws[(c - 1) * width + r])]],
     width |-> width, height |-> height]

\* BaseLifeBoard::gen(width, height); draws are the successive results of
\* gen_bool in Cell::gen
Gen(width, height, draws) ==
    [grid |-> [c \in 1..width |->
                  [r \in 1..height |-> Cell(draws[(c - 1) * height + r])]],
     width |-> width, height |-> height]

\* -------------------------------------------------------------- rendering
\* what the formatter receives is the sequence of non-empty strings written
\* to it; a written string is kept as its format pieces
NewlineToken == [text |-> "\n", label |-> "", at |-> << >>]

\* cell_string of _board_fmt: "({alive}, {row_idx}, {col_idx}) " or "{alive} "
CellString(alive, row_idx, col_idx, dbg) ==
    [text |-> alive, label |-> IF dbg THEN "(" ELSE "",
     at |-> IF dbg THEN << row_idx, col_idx >> ELSE << >>]

\* cell_string of grid_fmt: "(alv={alive}, {row_idx}, {col_idx}) " or "{alive} "
LifeCellString(alive, row_idx, col_idx, dbg) ==
    [text |-> alive, label |-> IF dbg THEN "(alv=" ELSE "",
     at |-> IF dbg THEN << row_idx, col_idx >> ELSE << >>]

\* the inner loop of _board_fmt over row_idx in 0..width for one col_idx
BoardFmtCells(b, col_idx, alive_cell, dead_cell, dbg) ==
    [k \in 1..Width(b) |->
        CellString(IF Unwrap(CellAt(b, k - 1, col_idx)).alive
                   THEN alive_cell ELSE dead_cell,
                   k - 1, col_idx, dbg)]

\* the outer loop of _board_fmt from col_idx on
RECURSIVE BoardFmtFrom(_, _, _, _, _)
BoardFmtFrom(b, col_idx, alive_cell, dead_cell, dbg) ==
    IF col_idx >= Height(b) THEN << >>
    ELSE BoardFmtCells(b, col_idx, alive_cell, dead_cell, dbg)
         \o (IF col_idx = b.width - 1 THEN << >> ELSE << NewlineToken >>)
         \o BoardFmtFrom(b, col_idx + 1, alive_cell, dead_cell, dbg)

\* BaseLifeBoard::_board_fmt
BoardFmt(b, alive_cell, dead_cell, dbg) ==
    BoardFmtFrom(b, 0, alive_cell, dead_cell, dbg)

\* Display and Debug of BaseLifeBoard (ParallelLifeBoard delegates to them)
DisplayFmt(b) == BoardFmt(b, "*", " ", FALSE)
DebugFmt(b) == BoardFmt(b, "T", "F", TRUE)

\* the outer loop of LifeBoard::grid_fmt of life.rs from col_idx on
RECURSIVE GridFmtFrom(_, _, _, _, _)
GridFmtFrom(b, col_idx, alive_cell, dead_cell, dbg) ==
    IF col_idx >= b.height THEN << >>
    ELSE [k \in 1..b.width |->
             LifeCellString(IF b.grid[k][col_idx + 1].alive
                            THEN alive_cell ELSE dead_cell,
                            k - 1, col_idx, dbg)]
         \o (IF col_idx = b.width - 1 THEN << >> ELSE << NewlineToken >>)
         \o GridFmtFrom(b, col_idx + 1, alive_cell, dead_cell, dbg)

\* LifeBoard::grid_fmt
GridFmt(b, alive_cell, dead_cell, dbg) ==
    GridFmtFrom(b, 0, alive_cell, dead_cell, dbg)

\* Display and Debug of the life.rs LifeBoard
LifeDisplayFmt(b) == GridFmt(b, "*", " ", FALSE)
LifeDebugFmt(b) == GridFmt(b, "T", "F", TRUE)

\* --------------------------------------------------- life.rs board equality
\* impl PartialEq for LifeBoard: the columns are zipped and compared pairwise
LifeBoardEq(a, b) ==
    \A i \in DOMAIN a.grid \cap DOMAIN b.grid : a.grid[i] = b.grid[i]

\* ------------------------------------------------------ partition plan
\* Range<usize>: half-open start..end
Range(start, end) == [start |-> start, end |-> end]
\* number of indices a Range iterator yields
RangeLen(r) == IF r.end > r.start THEN r.end - r.start ELSE 0
\* the indices a Range iterator yields
RangeSet(r) == r.start..(r.end - 1)

RECURSIVE RowRangesDropLastFrom(_, _, _, _, _)
RowRangesDropLastFrom(width, nthreads, slice_size, thread_idx, cur_left_col) ==
    IF thread_idx > nthreads THEN << >>
    ELSE IF thread_idx = nthreads THEN << Range(cur_left_col, width - 1) >>
    ELSE << Range(cur_left_col, cur_left_col + slice_size) >>
         \o RowRangesDropLastFrom(width, nthreads, slice_size, thread_idx + 1,
                                  cur_left_col + slice_size)

\* faulty variant: the final range ends at width - 1
RowRangesDropLast(width, nthreads) ==
    RowRangesDropLastFrom(width, nthreads, width \div nthreads, 1, 0)

\* faulty variant: slice_size is rounded up
RowRangesRoundedUp(width, nthreads) ==
    RowRangesDropLastFrom(width + 1, nthreads,
                          (width + nthreads - 1) \div nthreads, 1, 0)

\* the closure of row_ranges mapped over thread_idx..=nthreads, with the
\* captured cur_left_col threaded through
RECURSIVE RowRangesFrom(_, _, _, _, _)
RowRangesFrom(width, nthreads, slice_size, thread_idx, cur_left_col) ==
    IF thread_idx > nthreads THEN << >>
    ELSE IF thread_idx = nthreads THEN << Range(cur_left_col, width) >>
    ELSE << Range(cur_left_col, cur_left_col + slice_size) >>
         \o RowRangesFrom(width, nthreads, slice_size, thread_idx + 1,
                          cur_left_col + slice_size)

\* ParallelLifeBoard::row_ranges (nthreads > 0; nthreads = 0 divides by zero)
RowRanges(width, nthreads) ==
    RowRangesFrom(width, nthreads, width \div nthreads, 1, 0)

\* ------------------------------------------------------- engine equality
\* the ParallelLifeBoard value from_board(board, n_threads) returns (n_threads >= 1)
EngineFromBoard(b, nthreads) ==
    [board |-> b, n_threads |-> nthreads,
     thread_row_ranges |-> RowRanges(b.width, nthreads)]

\* #[derive(PartialEq)] on ParallelLifeBoard: field by field; Arc<BaseLifeBoard>
\* compares the boards behind the handles
ParallelLifeBoardEq(a, b) ==
    /\ a.board = b.board
    /\ a.n_threads = b.n_threads
    /\ a.thread_row_ranges = b.thread_row_ranges

\* ------------------------------------------------------- worker closure
\* the worker's .expect(..) on next_cell_state_at succeeds for every index
SliceOk(b, row_range) ==
    \A row_idx \in RangeSet(row_range) : \A col_idx \in 0..(b.height - 1) :
        IsSome(NextCellStateAt(b, row_idx, col_idx))

\* faulty variant: the worker indexes the snapshot from 0 instead of row_range.start
WorkerSliceNoOffset(b, row_range) ==
    [k \in 1..RangeLen(row_range) |->
        [col_idx \in 1..b.height |->
            Unwrap(NextCellStateAt(b, k - 1, col_idx - 1))]]

\* faulty variant: the worker stops one column before row_range.end
WorkerSliceShort(b, row_range) ==
    [k \in 1..(RangeLen(row_range) - 1) |->
        [col_idx \in 1..b.height |->
            Unwrap(NextCellStateAt(b, row_range.start + (k - 1), col_idx - 1))]]

\* board_slice built by the worker closure
WorkerSlice(b, row_range) ==
    [k \in 1..RangeLen(row_range) |->
        [col_idx \in 1..b.height |->
            Unwrap(NextCellStateAt(b, row_range.start + (k - 1), col_idx - 1))]]

\* ----------------------------------------------------------- reassembly
Min(a, b) == IF a < b THEN a ELSE b

\* faulty variant: the range is looked up by arrival position
RecvRangeByArrival(ranges, thread_idx, arrival) == ranges[arrival + 1]

\* self.thread_row_ranges[thread_idx] for a received (board_slice, thread_idx)
RecvRange(ranges, thread_idx, arrival) == ranges[thread_idx + 1]

\* faulty variant: the first column of every slice is not placed
PlaceSkipFirst(grid, board_slice, row_range) ==
    [x \in 1..Len(grid) |->
        IF /\ x - 1 > row_range.start
           /\ x - 1 < row_range.start + Min(Len(board_slice), RangeLen(row_range))
        THEN board_slice[(x - 1) - row_range.start + 1]
        ELSE grid[x]]

\* for (board_col, row_idx) in board_slice.zip(row_range) { new_gird[row_idx] = board_col }
Place(grid, board_slice, row_range) ==
    [x \in 1..Len(grid) |->
        IF /\ x - 1 >= row_range.start
           /\ x - 1 < row_range.start + Min(Len(board_slice), RangeLen(row_range))
        THEN board_slice[(x - 1) - row_range.start + 1]
        ELSE grid[x]]

\* faulty variant: join does not wait for the thread to terminate
TerminatedNoWait(ws) == TRUE

\* JoinHandle::join returns once the thread has terminated
Terminated(ws) == ws \in {"done", "panicked"}

\* faulty variant: the join result is discarded
JoinIsErrIgnored(ws) == FALSE

\* JoinHandle::join returns Err when the thread panicked
JoinIsErr(ws) == ws = "panicked"

\* faulty variant: the receive loop stops after the first message
RecvLoopDoneEarly(received, n) == received >= 1

\* faulty variant: the receive loop runs once more than there are workers
RecvLoopDoneLate(received, n) == received >= n + 1

\* for _ in 0..self.n_threads is exhausted
RecvLoopDone(received, n) == received >= n

\* faulty variant: the held board is overwritten in place
SwapHeapInPlace(h, handle, b) == [h EXCEPT ![handle] = b]

\* Arc::new(BaseLifeBoard {..}): a fresh allocation; existing ones are untouched
SwapHeap(h, handle, b) == Append(h, b)

\* ------------------------------------------------------------------ state
VARIABLES
    input,              \* the bool matrix handed to the constructors
    n_in,               \* the n_threads: u8 handed to ParallelLifeBoard::from_board
    pc,                 \* position of the calling thread
    built,              \* Result returned by BaseLifeBoard::from_bool_matrix
    seq,                \* the BaseLifeBoard of the sequential engine
    seqSteps,           \* completed BaseLifeBoard::simulate calls
    heap,               \* Arc allocations: heap[h] is the BaseLifeBoard behind handle h
    board,              \* ParallelLifeBoard.board (a handle)
    n_threads,          \* ParallelLifeBoard.n_threads
    thread_row_ranges,  \* ParallelLifeBoard.thread_row_ranges
    parSteps,           \* completed ParallelLifeBoard::simulate calls
    idx,                \* loop counter of the running loop of simulate
    threads,            \* spawned closures: state, captured board handle, row_range
    chan,               \* mpsc channel contents, in send order
    new_gird,           \* simulate's local new_gird
    reader,             \* board handle held by a clone of the engine (0: no clone)
    q,                  \* the last &self call made of a board and what it returned
    steps_in,           \* the step count handed to simulate_n_steps
    nsteps              \* the running ParallelLifeBoard::simulate_n_steps loop

vars == << input, n_in, pc, built, seq, seqSteps, heap, board, n_threads,
           thread_row_ranges, parSteps, idx, threads, chan, new_gird, reader,
           q, steps_in, nsteps >>

ctorVars == << input, n_in >>
seqVars == << seq, seqSteps >>
engineVars == << heap, board, n_threads, thread_row_ranges, parSteps >>
callVars == << idx, threads, chan, new_gird >>
auxVars == << q, steps_in, nsteps >>

\* input matrices: at most MaxW columns of at most MaxH cells each (columns may
\* be empty or of different lengths), MaxCells cells in all
RECURSIVE TotalCells(_)
TotalCells(m) == IF m = << >> THEN 0 ELSE Len(Head(m)) + TotalCells(Tail(m))
Columns == UNION {[1..h -> BOOLEAN] : h \in 0..MaxH}
Matrices == {m \in UNION {[1..w -> Columns] : w \in 0..MaxW} : TotalCells(m) <= MaxCells}

NoBoard == [grid |-> << >>, width |-> 0, height |-> 0]
NoResult == [ok |-> FALSE, kind |-> "none", msg |-> << >>]
NoThread == [state |-> "none", board |-> 0, row_range |-> Range(0, 0)]
NoQuery == [op |-> "none", engine |-> "none", x |-> 0, y |-> 0, of |-> NoBoard,
            res |-> << >>]
NoNSteps == [active |-> FALSE, i |-> 0]

\* the state before any constructor has run
Fresh ==
    /\ pc = "new"
    /\ built = NoResult
    /\ seq = NoBoard
    /\ seqSteps = 0
    /\ heap = << >>
    /\ board = 0
    /\ n_threads = 0
    /\ thread_row_ranges = << >>
    /\ parSteps = 0
    /\ idx = 0
    /\ threads = << >>
    /\ chan = << >>
    /\ new_gird = << >>
    /\ reader = 0
    /\ q = NoQuery
    /\ nsteps = NoNSteps

Init ==
    /\ input \in Matrices
    /\ n_in \in 0..MaxThreads
    /\ steps_in = 0
    /\ Fresh

\* ------------------------------------------------------------ construction
\* BaseLifeBoard::from_bool_matrix(input): Ok(board) or Err(InvalidBoard)
NewBase ==
    /\ pc = "new"
    /\ built' = FromBoolMatrix(input)
    /\ IF built'.ok
       THEN seq' = built'.board /\ pc' = "built"
       ELSE seq' = seq /\ pc' = "rejected"
    /\ UNCHANGED << ctorVars, auxVars, seqSteps, engineVars, callVars, reader >>

\* faulty variant: a zero thread count yields an engine with an empty plan
FromBoardUnchecked ==
    /\ pc = "built"
    /\ thread_row_ranges' = IF n_in = 0 THEN << >> ELSE RowRanges(seq.width, n_in)
    /\ n_threads' = n_in
    /\ heap' = << seq >>
    /\ board' = 1
    /\ pc' = "idle"
    /\ UNCHANGED parSteps
    /\ UNCHANGED << ctorVars, auxVars, built, seqVars, callVars, reader >>

\* ParallelLifeBoard::from_board(board.clone(), n_in)
FromBoard ==
    /\ pc = "built"
    /\ IF n_in = 0
       THEN \* width / nthreads: attempt to divide by zero
            /\ pc' = "ctor_panicked"
            /\ UNCHANGED engineVars
       ELSE /\ thread_row_ranges' = RowRanges(seq.width, n_in)
            /\ n_threads' = n_in
            /\ heap' = << seq >>
            /\ board' = 1
            /\ pc' = "idle"
            /\ UNCHANGED parSteps
    /\ UNCHANGED << ctorVars, auxVars, built, seqVars, callVars, reader >>

\* The driver is the calling thread of the equivalence tests: it advances the
\* sequential engine, keeps a clone of the parallel engine, then advances the
\* parallel engine, MaxSteps times.  simulate(&mut self) excludes any other
\* use of the engine while a call is in progress.

\* ------------------------------------------------------ sequential engine
\* BaseLifeBoard::simulate(&mut self)
SeqSimulate ==
    /\ pc = "idle"
    /\ seqSteps = parSteps
    /\ seqSteps < MaxSteps
    /\ seq' = Simulate(seq)
    /\ seqSteps' = seqSteps + 1
    /\ UNCHANGED << ctorVars, auxVars, pc, built, engineVars, callVars, reader >>

\* -------------------------------------------------------- parallel engine
\* #[derive(Clone)] on ParallelLifeBoard: the clone shares the Arc
CloneEngine ==
    /\ pc = "idle"
    /\ seqSteps = parSteps + 1
    /\ reader # board
    /\ reader' = board
    /\ UNCHANGED << ctorVars, auxVars, pc, built, seqVars, engineVars, callVars >>

\* simulate(): channel and thread_handles are created
SimulateBegin ==
    /\ pc = "idle"
    /\ seqSteps = parSteps + 1
    /\ reader = board
    /\ pc' = "spawn"
    /\ idx' = 0
    /\ chan' = << >>
    /\ threads' = [t \in 0..(n_threads - 1) |-> NoThread]
    /\ new_gird' = << >>
    /\ UNCHANGED << ctorVars, auxVars, built, seqVars, engineVars, reader >>

\* faulty variant: the range is moved out of thread_row_ranges instead of cloned
SpawnTakingRange ==
    /\ pc = "spawn"
    /\ idx < n_threads
    /\ threads' = [threads EXCEPT ![idx] =
                      [state |-> "running", board |-> board,
                       row_range |-> thread_row_ranges[idx + 1]]]
    /\ thread_row_ranges' = [thread_row_ranges EXCEPT ![idx + 1] = Range(0, 0)]
    /\ idx' = IF idx + 1 = n_threads THEN 0 ELSE idx + 1
    /\ pc' = IF idx + 1 = n_threads THEN "join" ELSE "spawn"
    /\ new_gird' = IF idx + 1 = n_threads
                   THEN [x \in 1..heap[board].width |-> << >>]
                   ELSE new_gird
    /\ UNCHANGED << ctorVars, auxVars, built, seqVars, heap, board, n_threads,
                    parSteps, chan, reader >>

\* one iteration of for thread_idx in 0..self.n_threads: thread::spawn; after
\* the last one new_gird is allocated with one empty Vec per column
Spawn ==
    /\ pc = "spawn"
    /\ idx < n_threads
    /\ threads' = [threads EXCEPT ![idx] =
                      [state |-> "running", board |-> board,
                       row_range |-> thread_row_ranges[idx + 1]]]
    /\ idx' = IF idx + 1 = n_threads THEN 0 ELSE idx + 1
    /\ pc' = IF idx + 1 = n_threads THEN "join" ELSE "spawn"
    /\ new_gird' = IF idx + 1 = n_threads
                   THEN [x \in 1..heap[board].width |-> << >>]
                   ELSE new_gird
    /\ UNCHANGED << ctorVars, auxVars, built, seqVars, engineVars, chan, reader >>

\* the worker closure: builds board_slice from its snapshot and sends it; the
\* send fails, and unwrap panics, once the receiver has been dropped
WorkerRun(t) ==
    /\ threads[t].state = "running"
    /\ IF SliceOk(heap[threads[t].board], threads[t].row_range) /\ pc # "panicked"
       THEN /\ chan' = Append(chan,
                   [board_slice |-> WorkerSlice(heap[threads[t].board],
                                                threads[t].row_range),
                    thread_idx |-> t])
            /\ threads' = [threads EXCEPT ![t].state = "sent"]
       ELSE /\ chan' = chan
            /\ threads' = [threads EXCEPT ![t].state = "panicked"]
    /\ UNCHANGED << ctorVars, auxVars, pc, built, seqVars, engineVars, idx, new_gird, reader >>

\* the worker thread terminates after its send
WorkerExit(t) ==
    /\ threads[t].state = "sent"
    /\ threads' = [threads EXCEPT ![t].state = "done"]
    /\ UNCHANGED << ctorVars, auxVars, pc, built, seqVars, engineVars, idx, chan, new_gird,
                    reader >>

\* the worker thread panics before sending (any panic raised inside the closure)
WorkerPanic(t) ==
    /\ threads[t].state = "running"
    /\ threads' = [threads EXCEPT ![t].state = "panicked"]
    /\ UNCHANGED << ctorVars, auxVars, pc, built, seqVars, engineVars, idx, chan, new_gird,
                    reader >>

\* faulty variant: only the first handle is joined
JoinFirstOnly ==
    /\ pc = "join"
    /\ idx < n_threads
    /\ Terminated(threads[idx].state)
    /\ IF JoinIsErr(threads[idx].state)
       THEN pc' = "panicked" /\ idx' = idx
       ELSE idx' = 0 /\ pc' = "recv"
    /\ UNCHANGED << ctorVars, auxVars, built, seqVars, engineVars, threads, chan,
                    new_gird, reader >>

\* one iteration of for handle in thread_handles: handle.join().expect(..)
Join ==
    /\ pc = "join"
    /\ idx < n_threads
    /\ Terminated(threads[idx].state)
    /\ IF JoinIsErr(threads[idx].state)
       THEN pc' = "panicked" /\ idx' = idx
       ELSE /\ idx' = IF idx + 1 = n_threads THEN 0 ELSE idx + 1
            /\ pc' = IF idx + 1 = n_threads THEN "recv" ELSE "join"
    /\ UNCHANGED << ctorVars, auxVars, built, seqVars, engineVars, threads, chan, new_gird,
                    reader >>

\* faulty variant: the received message stays in the channel
RecvPeek ==
    /\ pc = "recv"
    /\ idx < n_threads
    /\ chan # << >>
    /\ LET msg == Head(chan)
           row_range == RecvRange(thread_row_ranges, msg.thread_idx, idx)
       IN  new_gird' = Place(new_gird, msg.board_slice, row_range)
    /\ chan' = chan
    /\ idx' = idx + 1
    /\ pc' = IF RecvLoopDone(idx + 1, n_threads) THEN "swap" ELSE "recv"
    /\ UNCHANGED << ctorVars, auxVars, built, seqVars, engineVars, threads, reader >>

\* one iteration of for _ in 0..self.n_threads: rx.recv() and the placement loop
Recv ==
    /\ pc = "recv"
    /\ idx < n_threads
    /\ chan # << >>
    /\ LET msg == Head(chan)
           row_range == RecvRange(thread_row_ranges, msg.thread_idx, idx)
       IN  new_gird' = Place(new_gird, msg.board_slice, row_range)
    /\ chan' = Tail(chan)
    /\ idx' = idx + 1
    /\ pc' = IF RecvLoopDone(idx + 1, n_threads) THEN "swap" ELSE "recv"
    /\ UNCHANGED << ctorVars, auxVars, built, seqVars, engineVars, threads, reader >>

\* self.board = Arc::new(BaseLifeBoard { grid: new_gird, width, height });
\* simulate returns to its caller
Swap ==
    /\ pc = "swap"
    /\ heap' = SwapHeap(heap, board,
                        [grid |-> new_gird, width |-> heap[board].width,
                         height |-> heap[board].height])
    /\ board' = Len(heap')
    /\ parSteps' = parSteps + 1
    /\ pc' = IF nsteps.active THEN "n_loop" ELSE "idle"
    /\ UNCHANGED << ctorVars, auxVars, built, seqVars, n_threads, thread_row_ranges,
                    callVars, reader >>

Next ==
    \/ NewBase
    \/ FromBoard
    \/ SeqSimulate
    \/ CloneEngine
    \/ SimulateBegin
    \/ Spawn
    \/ \E t \in DOMAIN threads : WorkerRun(t)
    \/ \E t \in DOMAIN threads : WorkerExit(t)
    \/ \E t \in DOMAIN threads : WorkerPanic(t)
    \/ Join
    \/ Recv
    \/ Swap

Spec == Init /\ [][Next]_vars

\* ---------------------------------------------------------------- queries
\* side of the square boards of the query tests (get_3x3_board)
TestDim == 3
Boards3x3 == [1..TestDim -> [1..TestDim -> BOOLEAN]]
\* coordinates handed to the i64 queries and to the usize queries
CoordsI64 == -1..TestDim
CoordsUsize == 0..TestDim

\* The driver of the query tests makes one call on a constructed board.

\* the board an engine holds
Held(engine) == IF engine = "base" THEN seq ELSE heap[board]

InitQ ==
    /\ input \in Matrices \cup Boards3x3
    /\ n_in \in 0..1
    /\ steps_in = 0
    /\ Fresh

\* _is_cell_alive(x, y) on either engine (is_cell_alive casts and delegates)
QueryIsCellAlive(engine, x, y) ==
    /\ pc = "idle"
    /\ q = NoQuery
    /\ q' = [op |-> "is_cell_alive", engine |-> engine, x |-> x, y |-> y,
             of |-> Held(engine),
             res |-> IF engine = "base" THEN IsCellAlive(seq, x, y)
                     ELSE ParIsCellAliveI(heap[board], x, y)]
    /\ UNCHANGED << ctorVars, pc, built, seqVars, engineVars, callVars, reader,
                    steps_in, nsteps >>

\* num_alive_neighbors_at(x, y) on either engine
QueryNumAliveNeighbors(engine, x, y) ==
    /\ pc = "idle"
    /\ q = NoQuery
    /\ q' = [op |-> "num_alive_neighbors_at", engine |-> engine, x |-> x, y |-> y,
             of |-> Held(engine),
             res |-> NumAliveNeighborsAt(Held(engine), x, y)]
    /\ UNCHANGED << ctorVars, pc, built, seqVars, engineVars, callVars, reader,
                    steps_in, nsteps >>

\* next_cell_state_at(x, y) on either engine
QueryNextCellState(engine, x, y) ==
    /\ pc = "idle"
    /\ q = NoQuery
    /\ q' = [op |-> "next_cell_state_at", engine |-> engine, x |-> x, y |-> y,
             of |-> Held(engine),
             res |-> NextCellStateAt(Held(engine), x, y)]
    /\ UNCHANGED << ctorVars, pc, built, seqVars, engineVars, callVars, reader,
                    steps_in, nsteps >>

\* LifeBoard::simulate(&self) of life.rs on a LifeBoard holding the same grid
QueryLifeSimulate ==
    /\ pc = "idle"
    /\ q = NoQuery
    /\ q' = [op |-> "LifeBoard::simulate", engine |-> "life", x |-> 0, y |-> 0,
             of |-> built.board,
             res |-> LifeSimulate(built.board)]
    /\ UNCHANGED << ctorVars, pc, built, seqVars, engineVars, callVars, reader,
                    steps_in, nsteps >>

NextQ ==
    \/ NewBase
    \/ FromBoard
    \/ SeqSimulate
    \/ \E engine \in {"base", "parallel"} : \E x \in CoordsI64 : \E y \in CoordsI64 :
           QueryIsCellAlive(engine, x, y)
    \/ \E engine \in {"base", "parallel"} : \E x \in CoordsUsize : \E y \in CoordsUsize :
           QueryNumAliveNeighbors(engine, x, y)
    \/ \E engine \in {"base", "parallel"} : \E x \in CoordsUsize : \E y \in CoordsUsize :
           QueryNextCellState(engine, x, y)
    \/ QueryLifeSimulate

SpecQ == InitQ /\ [][NextQ]_vars

\* ------------------------------------------------------- simulate_n_steps
\* The driver of the n-step tests hands steps_in to simulate_n_steps of the
\* sequential engine, of a life.rs LifeBoard holding the same grid, and of the
\* parallel engine, in that order.
InitN ==
    /\ input \in Matrices
    /\ n_in \in 0..MaxThreadsN
    /\ steps_in \in 0..MaxSteps
    /\ Fresh

\* BaseLifeBoard::simulate_n_steps(&mut self, steps_in)
SeqSimulateNSteps ==
    /\ pc = "idle"
    /\ seq' = SimulateNSteps(seq, steps_in)
    /\ seqSteps' = seqSteps + steps_in
    /\ pc' = "seq_done"
    /\ UNCHANGED << ctorVars, auxVars, built, engineVars, callVars, reader >>

\* LifeBoard::simulate_n_steps(&self, steps_in) of life.rs
QueryLifeSimulateNSteps ==
    /\ pc = "seq_done"
    /\ q' = [op |-> "LifeBoard::simulate_n_steps", engine |-> "life",
             x |-> steps_in, y |-> 0, of |-> built.board,
             res |-> LifeSimulateNSteps(built.board, steps_in)]
    /\ pc' = "life_done"
    /\ UNCHANGED << ctorVars, built, seqVars, engineVars, callVars, reader,
                    steps_in, nsteps >>

\* ParallelLifeBoard::simulate_n_steps(&mut self, steps_in) is entered
NStepsBegin ==
    /\ pc = "life_done"
    /\ nsteps' = [active |-> TRUE, i |-> 0]
    /\ pc' = "n_loop"
    /\ UNCHANGED << ctorVars, built, seqVars, engineVars, callVars, reader,
                    q, steps_in >>

\* one iteration of for _ in 0..steps: self.simulate() is called
NStepsIter ==
    /\ pc = "n_loop"
    /\ nsteps.i < steps_in
    /\ nsteps' = [nsteps EXCEPT !.i = nsteps.i + 1]
    /\ pc' = "spawn"
    /\ idx' = 0
    /\ chan' = << >>
    /\ threads' = [t \in 0..(n_threads - 1) |-> NoThread]
    /\ new_gird' = << >>
    /\ UNCHANGED << ctorVars, built, seqVars, engineVars, reader, q, steps_in >>

\* the range 0..steps is exhausted: simulate_n_steps returns
NStepsReturn ==
    /\ pc = "n_loop"
    /\ nsteps.i >= steps_in
    /\ nsteps' = [nsteps EXCEPT !.active = FALSE]
    /\ pc' = "n_done"
    /\ UNCHANGED << ctorVars, built, seqVars, engineVars, callVars, reader,
                    q, steps_in >>

NextN ==
    \/ NewBase
    \/ FromBoard
    \/ SeqSimulateNSteps
    \/ QueryLifeSimulateNSteps
    \/ NStepsBegin
    \/ NStepsIter
    \/ Spawn
    \/ \E t \in DOMAIN threads : WorkerRun(t)
    \/ \E t \in DOMAIN threads : WorkerExit(t)
    \/ Join
    \/ Recv
    \/ Swap
    \/ NStepsReturn

SpecN == InitN /\ [][NextN]_vars

\* -------------------------------------------------------------- scheduling
\* Runs without worker failure, on boards whose cells are all dead or all
\* alive.  The operating system schedules every spawned thread, and the
\* calling thread, again and again: a step of a thread that stays possible is
\* eventually taken.
UniformMatrices ==
    {m \in Matrices :
        \A c \in 1..Len(m) : \A r \in 1..Len(m[c]) :
            \A d \in 1..Len(m) : \A s \in 1..Len(m[d]) : m[c][r] = m[d][s]}

InitL ==
    /\ input \in UniformMatrices
    /\ n_in \in 0..MaxThreads
    /\ steps_in = 0
    /\ Fresh

NextL ==
    \/ NewBase
    \/ FromBoard
    \/ SeqSimulate
    \/ CloneEngine
    \/ SimulateBegin
    \/ Spawn
    \/ \E t \in DOMAIN threads : WorkerRun(t)
    \/ \E t \in DOMAIN threads : WorkerExit(t)
    \/ Join
    \/ Recv
    \/ Swap

SpecL ==
    /\ InitL
    /\ [][NextL]_vars
    /\ WF_vars(Spawn)
    /\ WF_vars(Join)
    /\ WF_vars(Recv)
    /\ WF_vars(Swap)
    /\ \A t \in 0..MaxThreads : WF_vars(t \in DOMAIN threads /\ WorkerRun(t))
    /\ \A t \in 0..MaxThreads : WF_vars(t \in DOMAIN threads /\ WorkerExit(t))

\* ------------------------------------------------------ reference boards
\* number of steps and of threads of the 10-step tests
TestSteps == 10
TestThreads == 3

\* the sparse 5x5 board of test_equivalence_simulate_5x5_board_10_steps_all_die
Start5x5 ==
    << << TRUE, FALSE, FALSE, TRUE, FALSE >>,
       << FALSE, FALSE, TRUE, TRUE, FALSE >>,
       << TRUE, TRUE, FALSE, FALSE, TRUE >>,
       << FALSE, TRUE, TRUE, FALSE, FALSE >>,
       << TRUE, FALSE, FALSE, TRUE, FALSE >> >>
\* the board that test expects
Dead5x5 ==
    << << FALSE, FALSE, FALSE, FALSE, FALSE >>,
       << FALSE, FALSE, FALSE, FALSE, FALSE >>,
       << FALSE, FALSE, FALSE, FALSE, FALSE >>,
       << FALSE, FALSE, FALSE, FALSE, FALSE >>,
       << FALSE, FALSE, FALSE, FALSE, FALSE >> >>
\* get_7x7_start_board_0th_gen
Start7x7Gen0 ==
    << << FALSE, TRUE, FALSE, TRUE, FALSE, FALSE, FALSE >>,
       << FALSE, TRUE, FALSE, FALSE, TRUE, FALSE, FALSE >>,
       << FALSE, FALSE, FALSE, FALSE, FALSE, TRUE, FALSE >>,
       << FALSE, FALSE, FALSE, FALSE, FALSE, TRUE, FALSE >>,
       << TRUE, FALSE, FALSE, FALSE, TRUE, TRUE, FALSE >>,
       << TRUE, FALSE, TRUE, FALSE, FALSE, FALSE, FALSE >>,
       << FALSE, FALSE, TRUE, TRUE, TRUE, FALSE, TRUE >> >>
\* get_7x7_board_1st_gen
Board7x7Gen1 ==
    << << FALSE, FALSE, TRUE, FALSE, FALSE, FALSE, FALSE >>,
       << FALSE, FALSE, TRUE, FALSE, TRUE, FALSE, FALSE >>,
       << FALSE, FALSE, FALSE, FALSE, TRUE, TRUE, FALSE >>,
       << FALSE, FALSE, FALSE, FALSE, FALSE, TRUE, TRUE >>,
       << FALSE, TRUE, FALSE, FALSE, TRUE, TRUE, FALSE >>,
       << FALSE, FALSE, TRUE, FALSE, FALSE, FALSE, FALSE >>,
       << FALSE, TRUE, TRUE, TRUE, FALSE, FALSE, FALSE >> >>
\* get_7x7_end_board_10th_gen
Board7x7Gen10 ==
    << << FALSE, FALSE, TRUE, TRUE, FALSE, FALSE, FALSE >>,
       << FALSE, FALSE, TRUE, TRUE, FALSE, FALSE, FALSE >>,
       << FALSE, FALSE, TRUE, FALSE, FALSE, FALSE, FALSE >>,
       << FALSE, FALSE, TRUE, FALSE, FALSE, FALSE, FALSE >>,
       << FALSE, FALSE, TRUE, FALSE, FALSE, TRUE, TRUE >>,
       << FALSE, FALSE, FALSE, FALSE, TRUE, FALSE, TRUE >>,
       << FALSE, FALSE, FALSE, FALSE, FALSE, TRUE, FALSE >> >>
\* the fully alive board of get_3x3_board
AllAlive3x3 == [c \in 1..TestDim |-> [r \in 1..TestDim |-> TRUE]]
\* matrices without a live cell
DeadMatrices ==
    {m \in Matrices : \A c \in 1..Len(m) : \A r \in 1..Len(m[c]) : ~m[c][r]}

\* The driver of the reference tests builds both engines on one board and
\* advances each with simulate_n_steps.
InitT ==
    /\ input \in {Start5x5, Start7x7Gen0, AllAlive3x3} \cup DeadMatrices
    /\ n_in = TestThreads
    /\ steps_in \in {1, TestSteps}
    /\ Fresh

SpecT == InitT /\ [][NextN]_vars

\* ------------------------------------------------------------ single calls
\* The driver makes one call of a function that needs no engine: a cell
\* operation, row_ranges, gen, the == of two boards or engines, or a rendering.

\* the cells the code can construct: ColorCell::gen, to_alive, to_dead
ColorCells ==
    LET generated == {ColorCellGen(alive) : alive \in BOOLEAN}
    IN  generated \cup {ToAlive(c).ret : c \in generated}
                  \cup {ToDead(c).ret : c \in generated}
\* the cells of the engines: Cell::gen, Cell { alive }
Cells == {Cell(alive) : alive \in BOOLEAN}

\* the boards the constructors accept
ValidBoards == {FromBoolMatrix(m).board : m \in {v \in Matrices : FromBoolMatrix(v).ok}}

\* the (width, height) handed to gen and the draws of its Cell::gen calls
GenShapes == {s \in (1..MaxW) \X (1..MaxH) : s[1] * s[2] <= MaxCells}

\* row_ranges(width, nthreads): the division panics for nthreads = 0
RowRangesCall(width, nthreads) ==
    IF nthreads = 0
    THEN [panicked |-> TRUE, ranges |-> << >>]
    ELSE [panicked |-> FALSE, ranges |-> RowRanges(width, nthreads)]

InitP ==
    /\ input = << >>
    /\ n_in = 0
    /\ steps_in = 0
    /\ Fresh

\* c.to_alive()
CallToAlive(c) ==
    /\ pc = "new"
    /\ q = NoQuery
    /\ q' = [op |-> "to_alive", engine |-> "none", x |-> 0, y |-> 0,
             of |-> c, res |-> ToAlive(c)]
    /\ UNCHANGED << ctorVars, pc, built, seqVars, engineVars, callVars, reader,
                    steps_in, nsteps >>

\* c.to_dead()
CallToDead(c) ==
    /\ pc = "new"
    /\ q = NoQuery
    /\ q' = [op |-> "to_dead", engine |-> "none", x |-> 0, y |-> 0,
             of |-> c, res |-> ToDead(c)]
    /\ UNCHANGED << ctorVars, pc, built, seqVars, engineVars, callVars, reader,
                    steps_in, nsteps >>

\* a == b on two ColorCells
CallColorCellEq(a, b) ==
    /\ pc = "new"
    /\ q = NoQuery
    /\ q' = [op |-> "ColorCell::eq", engine |-> "none", x |-> 0, y |-> 0,
             of |-> << a, b >>, res |-> ColorCellEq(a, b)]
    /\ UNCHANGED << ctorVars, pc, built, seqVars, engineVars, callVars, reader,
                    steps_in, nsteps >>

\* a == b on two Cells
CallCellEq(a, b) ==
    /\ pc = "new"
    /\ q = NoQuery
    /\ q' = [op |-> "Cell::eq", engine |-> "none", x |-> 0, y |-> 0,
             of |-> << a, b >>, res |-> CellEq(a, b)]
    /\ UNCHANGED << ctorVars, pc, built, seqVars, engineVars, callVars, reader,
                    steps_in, nsteps >>

\* ParallelLifeBoard::row_ranges(width, nthreads)
CallRowRanges(width, nthreads) ==
    /\ pc = "new"
    /\ q = NoQuery
    /\ q' = [op |-> "row_ranges", engine |-> "none", x |-> width, y |-> nthreads,
             of |-> NoBoard, res |-> RowRangesCall(width, nthreads)]
    /\ UNCHANGED << ctorVars, pc, built, seqVars, engineVars, callVars, reader,
                    steps_in, nsteps >>

\* BaseLifeBoard::gen(width, height) with the given draws
CallGen(width, height, draws) ==
    /\ pc = "new"
    /\ q = NoQuery
    /\ q' = [op |-> "gen", engine |-> "none", x |-> width, y |-> height,
             of |-> draws, res |-> Gen(width, height, draws)]
    /\ UNCHANGED << ctorVars, pc, built, seqVars, engineVars, callVars, reader,
                    steps_in, nsteps >>

\* a == b on two life.rs LifeBoards
CallLifeBoardEq(a, b) ==
    /\ pc = "new"
    /\ q = NoQuery
    /\ q' = [op |-> "LifeBoard::eq", engine |-> "life", x |-> 0, y |-> 0,
             of |-> << a, b >>, res |-> LifeBoardEq(a, b)]
    /\ UNCHANGED << ctorVars, pc, built, seqVars, engineVars, callVars, reader,
                    steps_in, nsteps >>

\* a == b on two engines built by from_board(board_a, n) and from_board(board_b, m)
CallParallelLifeBoardEq(board_a, n, board_b, m) ==
    /\ pc = "new"
    /\ q = NoQuery
    /\ q' = [op |-> "ParallelLifeBoard::eq", engine |-> "parallel", x |-> n, y |-> m,
             of |-> << EngineFromBoard(board_a, n), EngineFromBoard(board_b, m) >>,
             res |-> ParallelLifeBoardEq(EngineFromBoard(board_a, n),
                                         EngineFromBoard(board_b, m))]
    /\ UNCHANGED << ctorVars, pc, built, seqVars, engineVars, callVars, reader,
                    steps_in, nsteps >>

\* format!("{b}") or format!("{b:?}") of a BaseLifeBoard
CallFmt(b, dbg) ==
    /\ pc = "new"
    /\ q = NoQuery
    /\ q' = [op |-> "fmt", engine |-> "base", x |-> 0, y |-> 0,
             of |-> b, res |-> IF dbg THEN DebugFmt(b) ELSE DisplayFmt(b)]
    /\ UNCHANGED << ctorVars, pc, built, seqVars, engineVars, callVars, reader,
                    steps_in, nsteps >>

\* format!("{b}") or format!("{b:?}") of a life.rs LifeBoard
CallLifeFmt(b, dbg) ==
    /\ pc = "new"
    /\ q = NoQuery
    /\ q' = [op |-> "fmt", engine |-> "life", x |-> 0, y |-> 0,
             of |-> b, res |-> IF dbg THEN LifeDebugFmt(b) ELSE LifeDisplayFmt(b)]
    /\ UNCHANGED << ctorVars, pc, built, seqVars, engineVars, callVars, reader,
                    steps_in, nsteps >>

\* one call per run
NextP ==
    /\ q = NoQuery
    /\ \/ \E c \in ColorCells : CallToAlive(c)
       \/ \E c \in ColorCells : CallToDead(c)
       \/ \E a \in ColorCells : \E b \in ColorCells : CallColorCellEq(a, b)
       \/ \E a \in Cells : \E b \in Cells : CallCellEq(a, b)
       \/ \E width \in 0..MaxPlanW : \E nthreads \in 0..MaxPlanN :
              CallRowRanges(width, nthreads)
       \/ \E s \in GenShapes : \E draws \in [1..(s[1] * s[2]) -> BOOLEAN] :
              CallGen(s[1], s[2], draws)
       \/ \E a \in ValidBoards : \E b \in ValidBoards : CallLifeBoardEq(a, b)
       \/ \E a \in ValidBoards : \E b \in ValidBoards :
              \E n \in 1..MaxThreadsN : \E m \in 1..MaxThreadsN :
                 CallParallelLifeBoardEq(a, n, b, m)
       \/ \E b \in ValidBoards : \E dbg \in BOOLEAN : CallFmt(b, dbg)
       \/ \E b \in ValidBoards : \E dbg \in BOOLEAN : CallLifeFmt(b, dbg)

SpecP == InitP /\ [][NextP]_vars

\* ================================================================= claims
\* what is checked below reads the state above; none of it feeds back into it

\* the handles through which a board can be read: the engine's and its clone's
Handles == {board, reader} \ {0}
\* threads of the current call that have been spawned and not yet terminated
Live(t) == threads[t].state \in {"running", "sent"}
\* board b is the generation the sequential engine holds, or the one before it
\* (the sequential engine is one step ahead while a parallel call is running)
OracleGeneration(b) ==
    IF seqSteps = parSteps THEN b = seq ELSE Simulate(b) = seq
\* board b has width columns of height cells each
Complete(b) ==
    /\ Len(b.grid) = Width(b)
    /\ \A x \in 1..Len(b.grid) : Len(b.grid[x]) = Height(b)
\* thread indices whose message the coordinator has already received
Received == {t \in DOMAIN threads :
                /\ threads[t].state \in {"sent", "done"}
                /\ \A k \in 1..Len(chan) : chan[k].thread_idx # t}

\* C1: after the same number k of completed simulate() calls, for every start
\* grid and every n_threads >= 1 (also n_threads > width), the board held by
\* the parallel engine equals the board held by the sequential engine.
C1_ParallelEqualsSequential ==
    (pc = "idle" /\ seqSteps = parSteps) => heap[board] = seq

C1_Witness ==
    /\ pc = "idle" /\ seqSteps = parSteps /\ parSteps >= 2
    /\ n_threads > Width(heap[board])
    /\ Width(heap[board]) >= 2
    /\ heap[board] # heap[1]
    /\ \E x \in 0..2, y \in 0..2 : IsCellAliveI(heap[board], x, y) = Some(TRUE)

\* C2: the ranges of the partition plan are pairwise disjoint and cover
\* [0, width): every column index lies in exactly one range and no range
\* holds an index outside [0, width), also when n_threads > width.
C2_RowRangesPartition ==
    n_threads >= 1 =>
        /\ Len(thread_row_ranges) = n_threads
        /\ \A x \in 0..(Width(heap[board]) - 1) :
               Cardinality({k \in 1..Len(thread_row_ranges) :
                               x \in RangeSet(thread_row_ranges[k])}) = 1
        /\ \A k \in 1..Len(thread_row_ranges) :
               RangeSet(thread_row_ranges[k]) \subseteq 0..(Width(heap[board]) - 1)

C2_Witness ==
    /\ n_threads >= 2
    /\ n_threads > Width(heap[board])
    /\ Width(heap[board]) >= 2
    /\ thread_row_ranges[1] = Range(0, 0)

\* C3: whatever the order in which the messages arrive, a received slice
\* lands on the columns of the range its thread_idx names: during and after
\* the receive loop the filled columns of new_gird are exactly the columns of
\* the ranges of the received thread indices, each holding the next state of
\* that column of the snapshot, and after the loop every column is filled.
C3_PlacementByTag ==
    pc \in {"recv", "swap"} =>
        /\ \A x \in 1..Len(new_gird) :
               /\ new_gird[x] # << >> <=>
                      \E t \in Received : (x - 1) \in RangeSet(thread_row_ranges[t + 1])
               /\ new_gird[x] # << >> => new_gird[x] = SimulateGrid(heap[board])[x]
        /\ pc = "swap" => \A x \in 1..Len(new_gird) : new_gird[x] # << >>

C3_Witness ==
    /\ pc = "recv" /\ idx = 1
    /\ \E k \in 1..Len(chan) :
           chan[k].thread_idx = 0 /\ chan[k].board_slice # << >>
    /\ \E x \in 1..Len(new_gird) : new_gird[x] # << >>

\* C4: while a worker of a call has not terminated, the engine still holds the
\* board that worker captured at dispatch: the swap never precedes the end of
\* a worker.
C4_SwapAfterAllJoined ==
    \A t \in DOMAIN threads : Live(t) => board = threads[t].board

C4_Witness ==
    /\ pc = "idle" /\ parSteps >= 1 /\ n_threads >= 2
    /\ \A t \in DOMAIN threads : threads[t].state = "done"
    /\ board # threads[0].board

\* C5: once a worker of a call has panicked the call never gets past its join
\* loop (it ends in the panic of expect), nothing is allocated or swapped, and
\* the engine holds the board it held when the call began.
C5_WorkerFailureIsFatal ==
    (\E t \in DOMAIN threads : threads[t].state = "panicked") =>
        /\ pc \in {"spawn", "join", "panicked"}
        /\ board = reader
        /\ Len(heap) = parSteps + 1
        /\ OracleGeneration(heap[board])

C5_Witness ==
    /\ pc = "panicked"
    /\ \E t \in DOMAIN threads : threads[t].state = "done"
    /\ \E t \in DOMAIN threads : threads[t].state = "panicked"
    /\ chan # << >>
    /\ board = reader

\* C6: every board reachable through a handle is one complete generation: the
\* engine's handle yields the board held before the running call (the one its
\* clone holds), or the generation the sequential engine holds, or the one
\* before that; a clone's handle yields the engine's board or its
\* predecessor; a partially filled new_gird is behind no handle.
C6_ReadsSeeWholeGeneration ==
    /\ board # 0 =>
           /\ Complete(heap[board])
           /\ \/ board = reader
              \/ heap[board] = seq
              \/ Simulate(heap[board]) = seq
    /\ reader # 0 =>
           /\ Complete(heap[reader])
           /\ reader = board \/ Simulate(heap[reader]) = heap[board]

C6_Witness ==
    /\ pc = "recv"
    /\ \E x \in 1..Len(new_gird) : new_gird[x] = << >>
    /\ \E x \in 1..Len(new_gird) :
           new_gird[x] # << >> /\ new_gird[x] # heap[board].grid[x]
    /\ board \in Handles

\* C7: no step of the program changes a board once it is allocated; every
\* worker reads the board that was held at dispatch; and when the swap has
\* happened the clone taken before the call still reads the prior generation.
C7_SnapshotNeverModified ==
    [][/\ \A h \in DOMAIN heap : h \in DOMAIN heap' /\ heap'[h] = heap[h]
       /\ pc' \in {"spawn", "join", "recv", "swap", "panicked"} =>
              \A t \in DOMAIN threads' :
                  threads'[t].state # "none" =>
                      threads'[t].board = board' /\ board' = reader'
       /\ board' # board /\ board # 0 => reader' = board /\ heap'[reader'] = heap[board]
      ]_vars

C7_Witness ==
    /\ pc = "idle" /\ parSteps >= 1
    /\ reader # board
    /\ Simulate(heap[reader]) = heap[board]
    /\ heap[reader] # heap[board]

\* the substrings the tests look for in the InvalidBoard message
PatWide ==
    << "a", "t", " ", "l", "e", "a", "s", "t", " ", "o", "n", "e", " ",
       "c", "e", "l", "l", " ", "w", "i", "d", "e" >>
PatTall ==
    << "a", "t", " ", "l", "e", "a", "s", "t", " ", "o", "n", "e", " ",
       "c", "e", "l", "l", " ", "t", "a", "l", "l" >>
PatSize ==
    << "c", "o", "n", "s", "i", "s", "t", "e", "n", "t", " ", "s", "i", "z", "e" >>

\* the constructor has returned
Constructed == pc # "new"
\* built is Err(InvalidBoard(msg)) with msg containing pat
RejectedWith(pat) ==
    ~built.ok /\ built.kind = "InvalidBoard" /\ Contains(built.msg, pat)
\* some column of input is not as long as its first column
Jagged == \E c \in 1..Len(input) : Len(input[c]) # Len(input[1])

\* C8 as stated: construction returns InvalidBoard with "at least one cell
\* wide" for an empty outer sequence, with "at least one cell tall" for an
\* empty first column, and with "consistent size" whenever some column's
\* length differs from the first column's length.
C8_Original ==
    Constructed =>
        /\ Len(input) = 0 => RejectedWith(PatWide)
        /\ (Len(input) > 0 /\ Len(input[1]) = 0) => RejectedWith(PatTall)
        /\ (Len(input) > 0 /\ Jagged) => RejectedWith(PatSize)

\* C8 (amended): construction returns InvalidBoard with "at least one cell
\* wide" for an empty outer sequence, with "at least one cell tall" for an
\* empty first column, and with "consistent size" when the first column is
\* not empty and some column's length differs from the first column's length.
C8_ShapeErrors ==
    Constructed =>
        /\ Len(input) = 0 => RejectedWith(PatWide)
        /\ (Len(input) > 0 /\ Len(input[1]) = 0) => RejectedWith(PatTall)
        /\ (Len(input) > 0 /\ Len(input[1]) > 0 /\ Jagged) => RejectedWith(PatSize)

C8_Witness ==
    /\ pc = "rejected"
    /\ Len(input) >= 2 /\ Len(input[1]) > 0 /\ Jagged
    /\ RejectedWith(PatSize)

\* C9: the checks run in the order wide, tall, consistent: a matrix whose
\* first column is empty and which has a non-empty later column is rejected
\* with the "at least one cell tall" message and not the "consistent size" one.
C9_TallBeforeConsistent ==
    (/\ Constructed
     /\ Len(input) > 0
     /\ Len(input[1]) = 0
     /\ \E c \in 1..Len(input) : Len(input[c]) > 0)
        => RejectedWith(PatTall) /\ ~Contains(built.msg, PatSize)

C9_Witness ==
    /\ pc = "rejected"
    /\ Len(input) >= 2 /\ Len(input[1]) = 0 /\ Len(input[2]) > 0
    /\ built.msg = MsgTall

\* C10: a rectangular matrix of w >= 1 columns of h >= 1 cells is accepted,
\* and the board reports width w and height h and the supplied liveness at
\* every (x, y).
C10_ValidConstruction ==
    (Constructed /\ Len(input) >= 1 /\ Len(input[1]) >= 1 /\ ~Jagged) =>
        /\ built.ok
        /\ Width(built.board) = Len(input)
        /\ Height(built.board) = Len(input[1])
        /\ \A x \in 0..(Len(input) - 1) : \A y \in 0..(Len(input[1]) - 1) :
               IsCellAliveI(built.board, x, y) = Some(input[x + 1][y + 1])

C10_Witness ==
    /\ pc = "built"
    /\ Width(built.board) = 3 /\ Height(built.board) = 2
    /\ IsCellAliveI(built.board, 2, 1) = Some(TRUE)
    /\ IsCellAliveI(built.board, 0, 0) = Some(FALSE)

\* (x, y) lies inside the grid of board b
InGrid(b, x, y) == x \in 0..(Width(b) - 1) /\ y \in 0..(Height(b) - 1)
\* the liveness stored at (x, y) of board b, for (x, y) inside the grid
AliveAt(b, x, y) == b.grid[x + 1][y + 1].alive
\* number of live cells among the positions around (x, y) that are inside the grid
MooreLive(b, x, y) ==
    Cardinality({p \in ((x - 1)..(x + 1)) \X ((y - 1)..(y + 1)) :
                    /\ p # << x, y >>
                    /\ InGrid(b, p[1], p[2])
                    /\ AliveAt(b, p[1], p[2])})
\* Conway's rule at (x, y) of board b
ConwayAlive(b, x, y) ==
    \/ AliveAt(b, x, y) /\ MooreLive(b, x, y) \in {2, 3}
    \/ ~AliveAt(b, x, y) /\ MooreLive(b, x, y) = 3

\* C11: a liveness query at (x, y) of either engine returns a value (it does
\* not panic): Some(liveness stored at (x, y)) when 0 <= x < width and
\* 0 <= y < height, and None otherwise, which includes x = -1, y = -1,
\* x = width and y = height.
C11_QueryInOrOutOfBounds ==
    q.op = "is_cell_alive" =>
        /\ q.res \in {None, Some(TRUE), Some(FALSE)}
        /\ q.res = IF InGrid(q.of, q.x, q.y)
                   THEN Some(AliveAt(q.of, q.x, q.y))
                   ELSE None

C11_Witness ==
    /\ q.op = "is_cell_alive" /\ q.engine = "parallel"
    /\ q.x = 0 /\ q.y = -1
    /\ AliveAt(q.of, 0, 0)
    /\ q.res = None

\* C12: for a cell inside the grid the neighbour count is the number of live
\* cells among its eight surrounding positions that are inside the grid
\* (positions outside count nothing, nothing wraps around); it lies in 0..8
\* and is 0 for the only cell of a 1x1 grid.
C12_NeighbourCount ==
    (q.op = "num_alive_neighbors_at" /\ InGrid(q.of, q.x, q.y)) =>
        /\ q.res = MooreLive(q.of, q.x, q.y)
        /\ q.res \in 0..8
        /\ (Width(q.of) = 1 /\ Height(q.of) = 1) => q.res = 0

C12_Witness ==
    /\ q.op = "num_alive_neighbors_at"
    /\ Width(q.of) = 3 /\ Height(q.of) = 3
    /\ q.x = 1 /\ q.y = 1
    /\ q.res = 8

\* C13: for a cell inside the grid the next state is alive exactly when the
\* cell is alive with 2 or 3 live neighbours or dead with exactly 3 live
\* neighbours; in every other case it is dead.
C13_ConwayRule ==
    (q.op = "next_cell_state_at" /\ InGrid(q.of, q.x, q.y)) =>
        q.res = Some(Cell(ConwayAlive(q.of, q.x, q.y)))

C13_Witness ==
    /\ q.op = "next_cell_state_at"
    /\ InGrid(q.of, q.x, q.y)
    /\ AliveAt(q.of, q.x, q.y)
    /\ MooreLive(q.of, q.x, q.y) = 3
    /\ q.res = Some(Cell(TRUE))

\* C14: a sequential step is synchronous: the grid the step produces has the
\* dimensions of the grid before it, and each of its cells is the next
\* state of that position computed on the grid before the step;
\* LifeBoard::simulate(&self) of life.rs returns such a grid and leaves the
\* board it was called on as it was.
C14_SynchronousStep ==
    [][/\ seqSteps' = seqSteps + 1 =>
              /\ Width(seq') = Width(seq) /\ Height(seq') = Height(seq)
              /\ Complete(seq')
              /\ \A x \in 0..(Width(seq) - 1) : \A y \in 0..(Height(seq) - 1) :
                     AliveAt(seq', x, y) = ConwayAlive(seq, x, y)
       /\ (q'.op = "LifeBoard::simulate" /\ q' # q) =>
              /\ q'.res.self = q'.of
              /\ Width(q'.res.ret) = Width(q'.of) /\ Height(q'.res.ret) = Height(q'.of)
              /\ Complete(q'.res.ret)
              /\ \A x \in 0..(Width(q'.of) - 1) : \A y \in 0..(Height(q'.of) - 1) :
                     AliveAt(q'.res.ret, x, y) = ConwayAlive(q'.of, x, y)
      ]_vars

C14_Witness ==
    /\ seqSteps = 1
    /\ Width(seq) = 3 /\ Height(seq) = 3
    /\ seq # built.board
    /\ q.op = "LifeBoard::simulate"
    /\ q.res.ret = seq
    /\ q.res.self = built.board

\* the board k successive BaseLifeBoard::simulate calls lead to from b
RECURSIVE Generation(_, _)
Generation(b, k) == IF k = 0 THEN b ELSE Simulate(Generation(b, k - 1))
\* the board k successive LifeBoard::simulate calls of life.rs lead to from b
RECURSIVE LifeGeneration(_, _)
LifeGeneration(b, k) == IF k = 0 THEN b ELSE LifeSimulate(LifeGeneration(b, k - 1)).ret

\* C15: simulate_n_steps(k) leaves the sequential engine, and returns from
\* the life.rs LifeBoard, the board that k successive simulate() calls lead
\* to; on the parallel engine it makes exactly k simulate() calls and leaves
\* the board those lead to; with k = 0 the held grid is the one held before.
C15_NStepsIsIteratedStep ==
    /\ pc = "seq_done" =>
           /\ seq = Generation(built.board, steps_in)
           /\ steps_in = 0 => seq = built.board
    /\ pc = "life_done" =>
           /\ q.res.ret = LifeGeneration(q.of, steps_in)
           /\ steps_in = 0 => q.res.ret = q.of
    /\ pc = "n_done" =>
           /\ parSteps = steps_in
           /\ Len(heap) = steps_in + 1
           /\ \A h \in 1..(Len(heap) - 1) : heap[h + 1] = Simulate(heap[h])
           /\ heap[board] = Generation(heap[1], steps_in)
           /\ steps_in = 0 => board = 1

C15_Witness ==
    /\ pc = "n_done"
    /\ steps_in = 2
    /\ n_threads >= 2
    /\ heap[board] = seq
    /\ q.res.ret = seq
    /\ seq # Simulate(built.board)
    /\ seq # built.board

\* C16: whatever the number of simulate() calls made, the grid each engine
\* holds has the width >= 1 and height >= 1 of the matrix it was built from,
\* and every one of its columns has exactly height cells: no column of a
\* reassembled grid is an empty placeholder.
C16_ShapePreserved ==
    /\ (Constructed /\ built.ok) =>
           /\ Width(seq) = Len(input) /\ Width(seq) >= 1
           /\ Height(seq) = Len(input[1]) /\ Height(seq) >= 1
           /\ Complete(seq)
    /\ board # 0 =>
           /\ Width(heap[board]) = Len(input) /\ Width(heap[board]) >= 1
           /\ Height(heap[board]) = Len(input[1]) /\ Height(heap[board]) >= 1
           /\ Complete(heap[board])
           /\ \A x \in 1..Len(heap[board].grid) : heap[board].grid[x] # << >>

C16_Witness ==
    /\ pc = "idle" /\ parSteps >= 2 /\ seqSteps >= 2
    /\ Width(heap[board]) = 3 /\ Height(heap[board]) = 2
    /\ n_threads = 2
    /\ heap[board] # heap[1]

\* C17: from construction on the engine's n_threads is the count it was
\* constructed with and thread_row_ranges is the plan computed from the
\* width and that count; no step of any call changes either.
C17_PlanFixed ==
    [][/\ n_threads # 0 =>
              n_threads' = n_threads /\ thread_row_ranges' = thread_row_ranges
       /\ n_threads' # 0 =>
              /\ n_threads' = n_in
              /\ thread_row_ranges' = RowRanges(Len(input), n_in)
      ]_vars

C17_Witness ==
    /\ pc = "idle" /\ parSteps >= 2
    /\ n_threads = 3
    /\ thread_row_ranges = << Range(0, 1), Range(1, 2), Range(2, 3) >>
    /\ heap[board] # heap[1]

\* column x of the generation after board b
NextColumn(b, x) == [y \in 1..Height(b) |-> Cell(ConwayAlive(b, x, y - 1))]
\* the next-generation columns of the range r of board b, in order
DenseSlice(b, r) == [i \in 1..RangeLen(r) |-> NextColumn(b, r.start + (i - 1))]
\* the dense slices of ranges k.. of the plan, one after the other
RECURSIVE ConcatSlices(_, _)
ConcatSlices(b, k) ==
    IF k > Len(thread_row_ranges) THEN << >>
    ELSE DenseSlice(b, thread_row_ranges[k]) \o ConcatSlices(b, k + 1)

\* C18: the slice a worker sends for its range r has exactly |r| columns of
\* height cells, its i-th column being the next state of column r.start + i
\* of the board the worker captured; a slice in the channel is not altered;
\* the grid handed to the swap is the concatenation of the workers' slices
\* in range order.
C18_DenseSlices ==
    [][/\ \A k \in 1..Len(chan') :
              \/ \E j \in 1..Len(chan) : chan[j] = chan'[k]
              \/ LET t == chan'[k].thread_idx
                     r == thread_row_ranges[t + 1]
                 IN  /\ threads[t].state = "running"
                     /\ Len(chan'[k].board_slice) = RangeLen(r)
                     /\ chan'[k].board_slice = DenseSlice(heap[threads[t].board], r)
       /\ pc' = "swap" => new_gird' = ConcatSlices(heap[board], 1)
      ]_vars

C18_Witness ==
    /\ pc = "swap"
    /\ n_threads = 2 /\ Width(heap[board]) = 3
    /\ thread_row_ranges[2] = Range(1, 3)
    /\ new_gird # heap[board].grid

\* C19: when there are more workers than columns, every column, the last
\* one (width - 1) included, lies in exactly one range of the plan, the grid
\* handed to the swap holds the next state of the last column, and after
\* equal numbers of steps the parallel engine holds the sequential engine's
\* board.
C19_MoreWorkersThanColumns ==
    (board # 0 /\ n_threads > Width(heap[board])) =>
        /\ \A x \in 0..(Width(heap[board]) - 1) :
               Cardinality({k \in 1..n_threads :
                               x \in RangeSet(thread_row_ranges[k])}) = 1
        /\ \E k \in 1..n_threads :
               (Width(heap[board]) - 1) \in RangeSet(thread_row_ranges[k])
        /\ pc = "swap" =>
               new_gird[Width(heap[board])] =
                   NextColumn(heap[board], Width(heap[board]) - 1)
        /\ (pc = "idle" /\ seqSteps = parSteps) => heap[board] = seq

C19_Witness ==
    /\ pc = "idle" /\ parSteps = 1 /\ seqSteps = 1
    /\ n_threads = 3 /\ Width(heap[board]) = 2
    /\ heap[board] = seq
    /\ heap[board].grid[2] # heap[1].grid[2]

\* C20: a simulate() call starts its workers anew, one per range of the plan
\* and n_threads in all, each on the board held at that moment; when the call
\* has returned, and so when the next call begins, every worker it started
\* has terminated.
C20_WorkersOfOneCall ==
    /\ pc = "spawn" =>
           \A t \in DOMAIN threads :
               IF t < idx THEN threads[t].state # "none" ELSE threads[t] = NoThread
    /\ pc \in {"join", "recv", "swap"} =>
           /\ DOMAIN threads = 0..(n_threads - 1)
           /\ \A t \in DOMAIN threads :
                  /\ threads[t].state # "none"
                  /\ threads[t].row_range = thread_row_ranges[t + 1]
                  /\ threads[t].board = board
    /\ pc = "idle" => \A t \in DOMAIN threads : threads[t].state = "done"

C20_Witness ==
    /\ pc = "join" /\ idx = 0 /\ parSteps = 1
    /\ n_threads = 3
    /\ \A t \in DOMAIN threads : threads[t].state = "running"

\* C21: with every thread scheduled fairly and no worker failing, a
\* simulate() call that has begun eventually returns: the engine is idle
\* again after a swap (the only step that leads there), with every slice
\* received and none left in the channel.
C21_StepCompletes ==
    (pc \in {"spawn", "join", "recv", "swap"})
        ~> (pc = "idle" /\ parSteps >= 1 /\ Len(chan) = 0)

C21_Witness ==
    /\ pc = "idle" /\ parSteps = 2
    /\ n_threads = 3 /\ Width(heap[board]) = 2
    /\ \A t \in DOMAIN threads : threads[t].state = "done"

\* the grid of cells a bool matrix stands for
CellsOf(m) == [c \in 1..Len(m) |-> [r \in 1..Len(m[c]) |-> Cell(m[c][r])]]
\* no cell of board b is alive
AllDead(b) == \A x \in 1..Len(b.grid) : \A y \in 1..Len(b.grid[x]) : ~b.grid[x][y].alive

\* C22: from the 7x7 reference board, one step gives the 1st-generation
\* reference board and ten steps give the 10th-generation reference board,
\* on the sequential engine, on the life.rs LifeBoard and on the parallel
\* engine with 3 workers.
C22_Reference7x7 ==
    input = Start7x7Gen0 =>
        LET expected == CellsOf(IF steps_in = 1 THEN Board7x7Gen1 ELSE Board7x7Gen10)
        IN  /\ pc = "seq_done" => seq.grid = expected
            /\ pc = "life_done" => q.res.ret.grid = expected
            /\ pc = "n_done" => n_threads = 3 /\ heap[board].grid = expected

C22_Witness ==
    /\ input = Start7x7Gen0 /\ steps_in = 10
    /\ pc = "n_done" /\ parSteps = 10
    /\ heap[board].grid = CellsOf(Board7x7Gen10)
    /\ seq.grid = CellsOf(Board7x7Gen10)

\* C23: ten sequential steps take the sparse 5x5 reference board to the 5x5
\* board without a live cell, on the sequential engine and on the life.rs
\* LifeBoard.
C23_Extinction5x5 ==
    (input = Start5x5 /\ steps_in = 10) =>
        /\ pc = "seq_done" =>
               /\ seq.grid = CellsOf(Dead5x5)
               /\ Width(seq) = 5 /\ Height(seq) = 5
        /\ pc = "life_done" => q.res.ret.grid = CellsOf(Dead5x5)

C23_Witness ==
    /\ input = Start5x5 /\ steps_in = 10
    /\ pc = "seq_done" /\ seqSteps = 10
    /\ AllDead(seq)
    /\ ~AllDead(built.board)

\* C24: a board without a live cell has none after any number of steps, on
\* either engine and on the life.rs LifeBoard; on the fully alive 3x3 board
\* the centre has 8 live neighbours, each edge cell 5 and each corner 3, and
\* one step leaves exactly the four corners alive.
C24_DeadFixedAliveBlock ==
    /\ (built.ok /\ AllDead(built.board)) =>
           /\ seq # NoBoard => AllDead(seq)
           /\ \A h \in DOMAIN heap : AllDead(heap[h])
           /\ pc \in {"recv", "swap"} =>
                  \A x \in 1..Len(new_gird) : \A y \in 1..Len(new_gird[x]) :
                      ~new_gird[x][y].alive
           /\ q.op = "LifeBoard::simulate_n_steps" => AllDead(q.res.ret)
    /\ (input = AllAlive3x3 /\ steps_in = 1 /\ pc \in {"seq_done", "n_done"}) =>
           LET after == IF pc = "seq_done" THEN seq ELSE heap[board]
           IN  /\ MooreLive(built.board, 1, 1) = 8
               /\ \A x \in 0..2 : \A y \in 0..2 :
                      /\ ((x = 1) # (y = 1)) => MooreLive(built.board, x, y) = 5
                      /\ (x # 1 /\ y # 1) => MooreLive(built.board, x, y) = 3
                      /\ AliveAt(after, x, y) = (x # 1 /\ y # 1)

C24_Witness ==
    /\ input = AllAlive3x3 /\ steps_in = 1
    /\ pc = "n_done"
    /\ ~AliveAt(heap[board], 1, 1)
    /\ AliveAt(heap[board], 0, 2)
    /\ ~AliveAt(heap[board], 1, 0)

\* C25: to_alive(c) returns a cell whose is_alive is true and to_dead(c) one
\* whose is_alive is false, the receiver c is left as it was, and two cells
\* compare equal exactly when their liveness flags are equal.
C25_CellOperations ==
    /\ q.op = "to_alive" => IsAlive(q.res.ret) /\ q.res.self = q.of
    /\ q.op = "to_dead" => ~IsAlive(q.res.ret) /\ q.res.self = q.of
    /\ q.op \in {"ColorCell::eq", "Cell::eq"} =>
           (q.res <=> (IsAlive(q.of[1]) = IsAlive(q.of[2])))

\* a dead cell's to_alive has returned a live cell
C25_Witness ==
    q.op = "to_alive" /\ ~IsAlive(q.of) /\ IsAlive(q.res.ret) /\ ~IsAlive(q.res.self)

\* C26: row_ranges(width, n) for n >= 1 returns exactly n ranges; with
\* s = floor(width / n), range i (from 0) is [i*s, (i+1)*s) for i < n - 1 and
\* the last range is [(n-1)*s, width).
C26_RowRangesShape ==
    (q.op = "row_ranges" /\ q.y >= 1) =>
        LET width == q.x
            n == q.y
            s == width \div n
            ranges == q.res.ranges
        IN  /\ ~q.res.panicked
            /\ Len(ranges) = n
            /\ \A i \in 0..(n - 2) : ranges[i + 1] = Range(i * s, (i + 1) * s)
            /\ ranges[n] = Range((n - 1) * s, width)

\* a width that the thread count does not divide: the last range is longer
C26_Witness ==
    /\ q.op = "row_ranges" /\ q.x = 8 /\ q.y = 3
    /\ q.res.ranges = << Range(0, 2), Range(2, 4), Range(4, 8) >>

\* C28: gen(width, height) with width, height >= 1 returns a board of width
\* columns of height cells each whose stored width and height are the
\* arguments, whatever the random draws.
C28_GenShape ==
    (q.op = "gen" /\ q.x >= 1 /\ q.y >= 1) =>
        /\ q.res.width = q.x
        /\ q.res.height = q.y
        /\ Len(q.res.grid) = q.x
        /\ \A c \in 1..Len(q.res.grid) : Len(q.res.grid[c]) = q.y
        /\ FromGrid(q.res.grid) = Ok(q.res)

\* a non-square board generated from mixed draws
C28_Witness ==
    /\ q.op = "gen" /\ q.x = 3 /\ q.y = 2
    /\ q.of = << TRUE, FALSE, FALSE, TRUE, TRUE, FALSE >>
    /\ q.res.grid[3] = << Cell(TRUE), Cell(FALSE) >>

\* C30: two life.rs LifeBoards compare equal only if they have the same
\* width, the same height and equal liveness at every coordinate; a board is
\* never equal to a board of a different width.
C30_EqualBoardsSameShape ==
    (q.op = "LifeBoard::eq" /\ q.res) =>
        LET a == q.of[1]
            b == q.of[2]
        IN  /\ a.width = b.width
            /\ a.height = b.height
            /\ \A x \in 0..(a.width - 1) : \A y \in 0..(a.height - 1) :
                   LifeIsCellAlive(a, x, y) = LifeIsCellAlive(b, x, y)

\* C27: every engine built with a worker count >= 1 holds exactly that many
\* ranges for as long as it lives; with a worker count of 0 construction
\* fails on the division by zero and no engine exists.
C27_PlanPerWorker ==
    /\ board # 0 =>
           /\ n_in >= 1
           /\ n_threads = n_in
           /\ Len(thread_row_ranges) = n_in
    /\ n_in = 0 =>
           /\ board = 0
           /\ heap = << >>
           /\ thread_row_ranges = << >>
           /\ pc \in {"new", "built", "rejected", "ctor_panicked"}
    /\ pc = "ctor_panicked" => n_in = 0 /\ built.ok

\* a valid 2-wide board handed to from_board with zero threads
C27_Witness ==
    pc = "ctor_panicked" /\ n_in = 0 /\ seq.width = 2 /\ board = 0 /\ steps_in = 1

\* C29: when the coordinator starts receiving, the channel holds exactly one
\* message per worker index; each receive assigns exactly the columns of the
\* sender's range, none of which was assigned before, so that at the end of
\* reassembly every column has been assigned exactly once.
C29_OneMessageAssignOnce ==
    [][/\ (pc = "join" /\ pc' = "recv") =>
              /\ Len(chan') = n_threads
              /\ \A t \in 0..(n_threads - 1) :
                     Cardinality({k \in 1..Len(chan') : chan'[k].thread_idx = t}) = 1
       /\ (pc = "recv" /\ idx' = idx + 1) =>
              LET msg == Head(chan)
                  assigned == {x \in 0..(Len(new_gird) - 1) :
                                  new_gird'[x + 1] # new_gird[x + 1]}
              IN  /\ assigned = RangeSet(thread_row_ranges[msg.thread_idx + 1])
                  /\ \A x \in assigned :
                         new_gird[x + 1] = << >> /\ Len(new_gird'[x + 1]) = heap[board].height
                  /\ chan' = Tail(chan)
       /\ (pc = "recv" /\ pc' = "swap") =>
              /\ chan' = << >>
              /\ Len(new_gird') = heap[board].width
              /\ \A x \in 1..Len(new_gird') : new_gird'[x] # << >>
      ]_vars

\* three workers on three columns: the last worker's message arrived first
\* and has been placed, the other two are still in the channel
C29_Witness ==
    /\ pc = "recv" /\ idx = 1 /\ n_threads = 3 /\ Len(new_gird) = 3
    /\ Len(chan) = 2 /\ chan[1].thread_idx = 0 /\ chan[2].thread_idx = 1
    /\ new_gird[3] # << >> /\ new_gird[1] = << >>

\* C31: equality of two ParallelLifeBoard engines of life_implementation.rs is
\* determined by the grids they hold only: engines holding cell-for-cell
\* identical grids compare equal even when built with different worker counts.
C31_EngineEqualityByGrid ==
    q.op = "ParallelLifeBoard::eq" =>
        (q.res <=> (q.of[1].board.grid = q.of[2].board.grid))

\* C32: the rendering of a board writes exactly height rows of width cell
\* tokens each, with a newline after every row except the last (y = height - 1)
\* and none after the last.
C32_RenderingRows ==
    q.op = "fmt" =>
        LET b == q.of
            out == q.res
        IN  /\ Len(out) = b.height * (b.width + 1) - 1
            /\ \A k \in 1..Len(out) :
                   IF k % (b.width + 1) = 0
                   THEN out[k] = NewlineToken
                   ELSE LET x == (k - 1) % (b.width + 1)
                            y == (k - 1) \div (b.width + 1)
                        IN  /\ out[k] # NewlineToken
                            /\ out[k].text \in {"*", "T"} <=> b.grid[x + 1][y + 1].alive
                            /\ out[k].at \in {<< >>, << x, y >>}
====
